---- MODULE Spec2Model ----
(***************************************************************************)
(* brightr: display backlight control through logind.                      *)
(*                                                                         *)
(* The module models                                                       *)
(*   - the command resolver of examples/brightr.rs (main) together with    *)
(*     its unit converter (to_percent / from_percent, gamma exponent 1),   *)
(*   - the library's apply entry points (src/lib.rs: set_brightness,       *)
(*     connect_and_set_brightness),                                        *)
(*   - the library's device discovery (src/lib.rs: find_first_backlight,   *)
(*     read_backlight_settings),                                           *)
(*   - the standalone binary src/main.rs.                                  *)
(*                                                                         *)
(* u32 is modelled as the integers 0 .. 2^WordBits - 1: TLC's integers are *)
(* 32 bits wide and signed, so the width is scaled down; saturation,       *)
(* wrap-around and the saturating float-to-integer cast keep their shape.  *)
(***************************************************************************)
EXTENDS Integers, Sequences, FiniteSets, TLC

\* ------------------------------------------------------------------ bounds

\* Width of the modelled unsigned word (u32 in the source).
WordBits == 10

\* Device readings, floors: 0 .. MaxRaw, and the values named in DevVals.
MaxRaw == 4

\* Command arguments (value / by): 0 .. MaxArg, and the values in ArgVals.
MaxArg == 2

\* Entries of /sys/class/backlight: at most MaxEntries.
MaxEntries == 2

\* Numbers found in the brightness and max_brightness files: 0 .. MaxReading.
MaxReading == 1

\* Calls a library client makes on one session: at most MaxCalls.
MaxCalls == 2

\* Device ceilings given to the unit converter: 1 .. MaxConvMax.
MaxConvMax == 302

\* Monotonicity compares an input a with a + 1 .. a + MaxGap and with the top
\* of the word.
MaxGap == 2

U32Max == 2^WordBits - 1

U32 == 0 .. U32Max

\* What the device reader can return and what --min can be: small values,
\* a mid-range value, a ceiling just above 100, and the top of the word.
DevVals == (0 .. MaxRaw) \cup {50, 101, U32Max}

\* What `set`, `up`, `down` can be given: small amounts, 50 and 100 percent,
\* and an amount that overflows any addition.
ArgVals == (0 .. MaxArg) \cup {50, 100, U32Max}

\* ------------------------------------------------------- integer helpers

\* u32::saturating_add
saturating_add(a, b) == IF a + b > U32Max THEN U32Max ELSE a + b

\* u32::wrapping_sub in the place of saturating_sub.
wrapping_sub(a, b) == (a - b) % (U32Max + 1)

\* u32::saturating_sub
saturating_sub(a, b) == IF a < b THEN 0 ELSE a - b

\* Ord::clamp panics unless lo <= hi.
clamp_panics(lo, hi) == lo > hi

\* clamp with the upper bound forgotten.
clamp_no_upper(x, lo, hi) == IF x < lo THEN lo ELSE x

\* clamp with the lower bound forgotten.
clamp_no_lower(x, lo, hi) == IF x > hi THEN hi ELSE x

\* Ord::clamp for lo <= hi.
clamp(x, lo, hi) == IF x < lo THEN lo ELSE IF x > hi THEN hi ELSE x

\* A float-to-integer cast that wraps instead of saturating.
CastU32_wrapping(S) == { x % (U32Max + 1) : x \in S }

\* `as u32` on a non-negative, finite f64 that holds an integer: saturates.
CastU32(S) == { IF x > U32Max THEN U32Max ELSE x : x \in S }

\* f64::round (half away from zero) of the quotient num / den, den > 0, as the
\* source computes it: the quotient is the product of two correctly rounded
\* f64 operations.  Away from a tie the f64 result rounds like the exact
\* quotient.  On a tie (the exact quotient is k + 1/2) the f64 value is
\* k + 1/2 exactly when the first operation was exact, and rounds to k + 1;
\* otherwise the accumulated rounding error decides, and either neighbour is
\* a possible outcome.
RoundF64(num, den, exact) ==
    LET q == num \div den
        r == num % den
    IN  IF 2 * r < den THEN {q}
        ELSE IF 2 * r > den THEN {q + 1}
        ELSE IF exact THEN {q + 1}
        ELSE {q, q + 1}

\* ------------------------------------------- unit converter (e = 1.0)

\* ((value / max).powf(1.) * 100.).round() as u32, as the set of results
\* the f64 evaluation can produce.  max = 0 gives NaN (value = 0, cast to 0)
\* or +inf (cast to u32::MAX).  value / max is exact in f64 iff it is a
\* dyadic rational; on a tie, 200 * value / max is the odd number 2q + 1 and
\* value / max is dyadic iff 25 divides it.
to_percent(m, value) ==
    IF m = 0
    THEN IF value = 0 THEN {0} ELSE {U32Max}
    ELSE CastU32(RoundF64(value * 100, m,
                          (2 * ((value * 100) \div m) + 1) % 25 = 0))

\* from_percent without .round(): the cast truncates.
from_percent_trunc(m, pct) == CastU32({(pct * m) \div 100})

\* (((pct / 100.).powf(1.)) * max).round() as u32, as the set of results the
\* f64 evaluation can produce.  pct / 100 is exact in f64 iff 25 divides pct.
from_percent(m, pct) == CastU32(RoundF64(pct * m, 100, pct % 25 = 0))

\* ------------------------------------------------------------------ state

VARIABLES
    args_raw,      \* --raw
    args_picky,    \* --picky
    args_min,      \* --min (examples/brightr.rs only)
    args_cmd,      \* the subcommand: "get", "set", "up", "down"
    args_arg,      \* its operand: Set.value, Up.by, Down.by
    build,         \* "debug" (overflow checks on) or "release" (wrapping)
    name_utf8,     \* whether Backlight.name is valid UTF-8
    bl_max,        \* Backlight.max
    current,       \* the raw setting read from the device
    current_user,  \* current in the requested unit
    max_user,      \* max in the requested unit
    target_user,   \* the new value in the requested unit
    target,        \* the new value in raw units
    stdout,        \* what `get` printed: <<x, y>> for "x/y"
    broker,        \* the values the session received through set_brightness
    pc,            \* position of the process
    exit,          \* "running", "ok", "error" (non-zero status), "panic"
    err,           \* which failure ended the run
    dir,           \* /sys/class/backlight: whether read_dir succeeds, its entries
    idx,           \* how many directory entries the iterator has yielded
    reads,         \* the files read so far: <<entry, component>>
    skipped,       \* the entries reported as skipped on stderr
    found          \* the result of find_first_backlight

argVars == <<args_raw, args_picky, args_min, args_cmd, args_arg, build>>

devVars == <<name_utf8, bl_max, current>>

runVars == <<current_user, max_user, target_user, target, stdout>>

endVars == <<broker, pc, exit, err>>

scanVars == <<dir, idx, reads, skipped, found>>

vars == <<argVars, devVars, runVars, endVars, scanVars>>

\* A value that was never assigned.
None == "none"

Cmds == {"get", "set", "up", "down"}

\* find_first_backlight has not returned.
NoResult ==
    [status |-> "running", name |-> 0, utf8 |-> TRUE, max |-> 0, current |-> 0]

\* The directory scan is not part of this run.
ScanIdle ==
    /\ dir = [access |-> TRUE, entries |-> <<>>]
    /\ idx = 0
    /\ reads = <<>>
    /\ skipped = <<>>
    /\ found = NoResult

\* A process that has not resolved anything yet.
RunIdle ==
    /\ current_user = None
    /\ max_user = None
    /\ target_user = None
    /\ target = None
    /\ stdout = None
    /\ broker = <<>>
    /\ exit = "running"
    /\ err = None

\* The process ends with status `status` because of `why`.
End(status, why) ==
    /\ pc' = "done"
    /\ exit' = status
    /\ err' = why

\* ------------------------------------------------ src/lib.rs: applying

\* set_brightness: the name must be UTF-8 (panic otherwise); the value goes
\* to the session as given; the session's answer is the result.
set_brightness(new_value) ==
    IF ~name_utf8
    THEN /\ End("panic", "name")
         /\ UNCHANGED broker
    ELSE /\ broker' = Append(broker, new_value)
         /\ \/ End("ok", None)
            \/ End("error", "Dbus")

\* connect_and_set_brightness: the range assertion, the connection to the
\* system bus and the session proxy (either can fail), then set_brightness.
connect_and_set_brightness(new_value) ==
    IF ~(new_value <= bl_max)
    THEN /\ End("panic", "assert")
         /\ UNCHANGED broker
    ELSE \/ /\ End("error", "Dbus")
            /\ UNCHANGED broker
         \/ set_brightness(new_value)

\* ------------------------------------ examples/brightr.rs: main

\* After Brightr::parse(): the arguments are fixed for the run.
ExampleInit ==
    /\ args_raw \in BOOLEAN
    /\ args_picky \in BOOLEAN
    /\ args_min \in DevVals
    /\ args_cmd \in Cmds
    /\ args_arg \in (IF args_cmd = "get" THEN {0} ELSE ArgVals)
    /\ build = "release"
    /\ name_utf8 = TRUE
    /\ bl_max = None
    /\ current = None
    /\ pc = "parsed"
    /\ RunIdle
    /\ ScanIdle

\* use_specific_backlight / find_first_backlight succeed: any readings, in
\* particular current > max and max = 0.
ReadDevice ==
    /\ pc = "parsed"
    /\ \E c \in DevVals, m \in DevVals, u \in BOOLEAN :
          /\ current' = c
          /\ bl_max' = m
          /\ name_utf8' = u
    /\ pc' = "read"
    /\ UNCHANGED <<argVars, runVars, broker, exit, err, scanVars>>

\* use_specific_backlight / find_first_backlight fail: `?` ends the run.
ReadDeviceFails ==
    /\ pc = "parsed"
    /\ End("error", "discovery")
    /\ UNCHANGED <<argVars, devVars, runVars, broker, scanVars>>

\* Map values into the appropriate unit depending on the arguments.
MapUnits ==
    /\ pc = "read"
    /\ IF args_raw
       THEN /\ current_user' = current
            /\ max_user' = bl_max
       ELSE /\ current_user' \in to_percent(bl_max, current)
            /\ max_user' = 100
    /\ pc' = "mapped"
    /\ UNCHANGED <<argVars, devVars, target_user, target, stdout, broker,
                   exit, err, scanVars>>

\* Get without its early return: prints, then goes on as `set current`.
Get_falls_through ==
    /\ pc = "mapped"
    /\ args_cmd = "get"
    /\ stdout' = <<current_user, max_user>>
    /\ target_user' = current_user
    /\ pc' = "computed"
    /\ UNCHANGED <<argVars, devVars, current_user, max_user, target, broker,
                   exit, err, scanVars>>

\* SubCmd::Get: print and return Ok(()).
Get ==
    /\ pc = "mapped"
    /\ args_cmd = "get"
    /\ stdout' = <<current_user, max_user>>
    /\ End("ok", None)
    /\ UNCHANGED <<argVars, devVars, current_user, max_user, target_user,
                   target, broker, scanVars>>

\* SubCmd::Set { value } => value
Set ==
    /\ pc = "mapped"
    /\ args_cmd = "set"
    /\ target_user' = args_arg
    /\ pc' = "computed"
    /\ UNCHANGED <<argVars, devVars, current_user, max_user, target, stdout,
                   broker, exit, err, scanVars>>

\* The boundary test of Up: args.picky && current == bl.max
at_upper_bound_ge == args_picky /\ current >= bl_max

at_upper_bound == args_picky /\ current = bl_max

\* The boundary test of Down: args.picky && current <= args.min
at_lower_bound == args_picky /\ current <= args_min

\* Up with a wrapping addition in place of saturating_add.
Up_wrapping ==
    /\ pc = "mapped"
    /\ args_cmd = "up"
    /\ IF at_upper_bound
       THEN /\ End("error", "AtUpperBound")
            /\ UNCHANGED target_user
       ELSE /\ target_user' = (current_user + args_arg) % (U32Max + 1)
            /\ pc' = "computed"
            /\ UNCHANGED <<exit, err>>
    /\ UNCHANGED <<argVars, devVars, current_user, max_user, target, stdout,
                   broker, scanVars>>

\* SubCmd::Up { by }: the picky check on the raw reading, then saturating_add.
Up ==
    /\ pc = "mapped"
    /\ args_cmd = "up"
    /\ IF at_upper_bound
       THEN /\ End("error", "AtUpperBound")
            /\ UNCHANGED target_user
       ELSE /\ target_user' = saturating_add(current_user, args_arg)
            /\ pc' = "computed"
            /\ UNCHANGED <<exit, err>>
    /\ UNCHANGED <<argVars, devVars, current_user, max_user, target, stdout,
                   broker, scanVars>>

\* SubCmd::Down { by }: the picky check on the raw reading, then
\* saturating_sub.
Down ==
    /\ pc = "mapped"
    /\ args_cmd = "down"
    /\ IF at_lower_bound
       THEN /\ End("error", "AtLowerBound")
            /\ UNCHANGED target_user
       ELSE /\ target_user' = saturating_sub(current_user, args_arg)
            /\ pc' = "computed"
            /\ UNCHANGED <<exit, err>>
    /\ UNCHANGED <<argVars, devVars, current_user, max_user, target, stdout,
                   broker, scanVars>>

\* Map back into device units if required, then .clamp(args.min, bl.max).
MapBack ==
    /\ pc = "computed"
    /\ \E t \in (IF args_raw THEN {target_user}
                 ELSE from_percent(bl_max, target_user)) :
          IF clamp_panics(args_min, bl_max)
          THEN /\ End("panic", "clamp")
               /\ UNCHANGED target
          ELSE /\ target' = clamp(t, args_min, bl_max)
               /\ pc' = "clamped"
               /\ UNCHANGED <<exit, err>>
    /\ UNCHANGED <<argVars, devVars, current_user, max_user, target_user,
                   stdout, broker, scanVars>>

\* brightr::connect_and_set_brightness(&bl, target)?
Apply ==
    /\ pc = "clamped"
    /\ connect_and_set_brightness(target)
    /\ UNCHANGED <<argVars, devVars, runVars, scanVars>>

ExampleNext ==
    \/ ReadDevice
    \/ ReadDeviceFails
    \/ MapUnits
    \/ Get
    \/ Set
    \/ Up
    \/ Down
    \/ MapBack
    \/ Apply

Spec == ExampleInit /\ [][ExampleNext]_vars

\* -------------------------------------------- the resolver's contract

\* The device was read: bl_max and current hold numbers.
DeviceRead == pc # "parsed" /\ err # "discovery"

\* The subcommand has been executed.
PastCmd == DeviceRead /\ pc \notin {"read", "mapped"}

\* The final clamp was reached (it either produced target or panicked).
PastClamp == PastCmd /\ pc # "computed" /\ err \notin {"AtUpperBound", "AtLowerBound"}
                     /\ args_cmd # "get"

\* The run called connect_and_set_brightness(&bl, target).
Handed == PastClamp /\ err # "clamp"

\* C1: every target that Set, Up or Down hands to the brightness-apply call
\* lies in 0 .. bl.max, in raw and in percentage mode, whatever current,
\* value/amount and floor are; the assertion new_value <= backlight.max of
\* connect_and_set_brightness never fails.
C1_TargetInRange ==
    /\ Handed => (0 <= target /\ target <= bl_max)
    /\ err # "assert"
    /\ \A i \in 1 .. Len(broker) : broker[i] <= bl_max

\* C1 witness: a percentage-mode `up` whose addition overflows the word was
\* applied.
C1_Witness ==
    /\ Handed
    /\ args_cmd = "up"
    /\ ~args_raw
    /\ bl_max > 0
    /\ current <= bl_max
    /\ current_user + args_arg > U32Max
    /\ broker = <<bl_max>>

\* C2 as stated: a Down run with current >= floor that passed the strict
\* pre-check completes the final clamp with a target >= floor, for every floor
\* and every device max.
C2_DownAboveFloorAnyFloor ==
    (PastClamp /\ args_cmd = "down" /\ current >= args_min)
        => (err # "clamp" /\ target >= args_min)

\* C2 amended: the same for every floor <= device max; with floor > max the
\* clamp panics and no target is handed on.
C2_DownAboveFloor ==
    (PastClamp /\ args_cmd = "down" /\ current >= args_min)
        => IF args_min <= bl_max
           THEN err # "clamp" /\ target >= args_min
           ELSE err = "clamp" /\ exit = "panic" /\ broker = <<>>

\* C2 witness: a decrease larger than the current value (the subtraction
\* saturates at zero) ended at a floor above zero.
C2_Witness ==
    /\ Handed
    /\ args_cmd = "down"
    /\ current >= args_min
    /\ args_arg > current_user
    /\ args_min > 0
    /\ broker = <<args_min>>

\* The run was rejected at the boundary: non-zero exit, nothing sent.
Rejected == err \in {"AtUpperBound", "AtLowerBound"}

\* Rejection happens exactly at the boundary in strict mode, before any
\* computation.
RejectedExactlyAtBoundary ==
    /\ Rejected => (exit = "error" /\ broker = <<>> /\ target_user = None
                    /\ target = None)
    /\ (PastCmd /\ args_cmd = "up")
          => ((err = "AtUpperBound") <=> (args_picky /\ current = bl_max))
    /\ (PastCmd /\ args_cmd = "down")
          => ((err = "AtLowerBound") <=> (args_picky /\ current <= args_min))
    /\ (PastCmd /\ args_cmd \in {"get", "set"}) => ~Rejected

\* With strict set, an amount that overshoots from strictly inside the range
\* succeeds and is clamped.
StrictOvershootClamps ==
    (PastClamp /\ args_picky /\ args_min < current /\ current < bl_max)
        => /\ (args_cmd = "up" /\ args_arg >= max_user)
                 => (Handed /\ target = bl_max)
           /\ (args_cmd = "down" /\ args_arg >= current_user)
                 => (Handed /\ target = args_min)

\* C3 as stated: rejection exactly at the boundary in strict mode; with strict
\* unset the boundary inputs succeed and apply device.max (Up at current = max)
\* and floor (Down at current <= floor); a strict overshoot from inside the
\* range succeeds and is clamped.
C3_BoundaryAsStated ==
    /\ RejectedExactlyAtBoundary
    /\ StrictOvershootClamps
    /\ (PastClamp /\ ~args_picky /\ args_cmd = "up" /\ current = bl_max)
          => (Handed /\ target = bl_max)
    /\ (PastClamp /\ ~args_picky /\ args_cmd = "down" /\ current <= args_min)
          => (Handed /\ target = args_min)

\* C3 amended: as stated, but the non-strict boundary inputs succeed only if
\* floor <= device.max (the clamp panics otherwise), and a non-strict Down at
\* current <= floor applies floor in raw mode or for an amount >= 1 (in
\* percentage mode `down 0` applies the rounded round trip of current, which
\* can exceed the floor).
C3_Boundary ==
    /\ RejectedExactlyAtBoundary
    /\ StrictOvershootClamps
    /\ (PastClamp /\ ~args_picky /\ args_cmd = "up" /\ current = bl_max)
          => IF args_min <= bl_max
             THEN Handed /\ target = bl_max
             ELSE err = "clamp"
    /\ (PastClamp /\ ~args_picky /\ args_cmd = "down" /\ current <= args_min)
          => IF args_min <= bl_max
             THEN /\ Handed
                  /\ (args_raw \/ args_arg >= 1) => target = args_min
             ELSE err = "clamp"

\* C3 witness: strict mode, current above device max (so not at the upper
\* boundary), `up` was computed, clamped to max and sent.
C3_Witness ==
    /\ Handed
    /\ args_picky
    /\ args_cmd = "up"
    /\ current > bl_max
    /\ broker = <<bl_max>>

\* C4: Get ends successfully after printing current/max in the active unit
\* (raw current and bl.max, or to_percent(current) and 100), for every
\* reading, including current > max and max = 0, and every policy; it
\* computes no target and never contacts the brightness-apply collaborator.
C4_Get ==
    (DeviceRead /\ args_cmd = "get")
        => /\ pc \in {"read", "mapped", "done"}
           /\ target_user = None /\ target = None /\ broker = <<>>
           /\ pc = "done"
                 => /\ exit = "ok" /\ err = None
                    /\ IF args_raw
                       THEN stdout = <<current, bl_max>>
                       ELSE /\ stdout[1] \in to_percent(bl_max, current)
                            /\ stdout[2] = 100

\* C4 witness: percentage mode, max = 0 and current > max: Get printed
\* "<u32::MAX>/100" and exited with status 0.
C4_Witness ==
    /\ DeviceRead
    /\ args_cmd = "get"
    /\ ~args_raw
    /\ pc = "done"
    /\ bl_max = 0
    /\ current > bl_max
    /\ stdout = <<U32Max, 100>>
    /\ exit = "ok"

\* ------------------------------------------- src/lib.rs: discovery

\* A file of a device directory: unreadable, not a u32 after trimming, or a
\* number.
Files ==
    {[st |-> "noent", val |-> 0], [st |-> "garbage", val |-> 0]}
        \cup {[st |-> "num", val |-> n] : n \in 0 .. MaxReading}

\* What the directory iterator yields: Err (ok = FALSE), or an entry with a
\* name (UTF-8 or not) and its two files.
Entries ==
    {[ok |-> FALSE, utf8 |-> TRUE, brightness |-> [st |-> "noent", val |-> 0],
      max_brightness |-> [st |-> "noent", val |-> 0]]}
        \cup [ok : {TRUE}, utf8 : BOOLEAN, brightness : Files,
              max_brightness : Files]

\* All sequences over S of length at most n.
SeqUpTo(S, n) == UNION {[1 .. k -> S] : k \in 0 .. n}

\* read_backlight_settings with current and max exchanged.
read_backlight_settings_swapped(e) ==
    IF e.brightness.st = "noent"
    THEN [ok |-> FALSE, why |-> "Access", files |-> <<"brightness">>,
          current |-> 0, max |-> 0]
    ELSE IF e.brightness.st = "garbage"
    THEN [ok |-> FALSE, why |-> "Parsing", files |-> <<"brightness">>,
          current |-> 0, max |-> 0]
    ELSE IF e.max_brightness.st = "noent"
    THEN [ok |-> FALSE, why |-> "Access",
          files |-> <<"brightness", "max_brightness">>,
          current |-> 0, max |-> 0]
    ELSE IF e.max_brightness.st = "garbage"
    THEN [ok |-> FALSE, why |-> "Parsing",
          files |-> <<"brightness", "max_brightness">>,
          current |-> 0, max |-> 0]
    ELSE [ok |-> TRUE, why |-> None,
          files |-> <<"brightness", "max_brightness">>,
          current |-> e.max_brightness.val, max |-> e.brightness.val]

\* read_backlight_settings: "brightness", then "max_brightness"; the first
\* read or parse failure returns; on success (parsed[0], parsed[1]).
read_backlight_settings(e) ==
    IF e.brightness.st = "noent"
    THEN [ok |-> FALSE, why |-> "Access", files |-> <<"brightness">>,
          current |-> 0, max |-> 0]
    ELSE IF e.brightness.st = "garbage"
    THEN [ok |-> FALSE, why |-> "Parsing", files |-> <<"brightness">>,
          current |-> 0, max |-> 0]
    ELSE IF e.max_brightness.st = "noent"
    THEN [ok |-> FALSE, why |-> "Access",
          files |-> <<"brightness", "max_brightness">>,
          current |-> 0, max |-> 0]
    ELSE IF e.max_brightness.st = "garbage"
    THEN [ok |-> FALSE, why |-> "Parsing",
          files |-> <<"brightness", "max_brightness">>,
          current |-> 0, max |-> 0]
    ELSE [ok |-> TRUE, why |-> None,
          files |-> <<"brightness", "max_brightness">>,
          current |-> e.brightness.val, max |-> e.max_brightness.val]

\* The reads of entry i, in order.
Tag(i, files) == [k \in 1 .. Len(files) |-> <<i, files[k]>>]

\* A caller that is about to call find_first_backlight, on any directory.
DiscoverInit ==
    /\ dir \in [access : BOOLEAN, entries : SeqUpTo(Entries, MaxEntries)]
    /\ idx = 0
    /\ reads = <<>>
    /\ skipped = <<>>
    /\ found = NoResult
    /\ args_raw = TRUE
    /\ args_picky = FALSE
    /\ args_min = 0
    /\ args_cmd = "set"
    /\ args_arg = 0
    /\ build = "release"
    /\ name_utf8 = TRUE
    /\ bl_max = None
    /\ current = None
    /\ pc = "parsed"
    /\ RunIdle

\* fs::read_dir("/sys/class/backlight").map_err(Error::SysAccess)?
ReadDir ==
    /\ pc = "parsed"
    /\ IF dir.access
       THEN /\ pc' = "scanning"
            /\ UNCHANGED found
       ELSE /\ pc' = "returned"
            /\ found' = [NoResult EXCEPT !.status = "SysAccess"]
    /\ UNCHANGED <<argVars, devVars, runVars, broker, exit, err, dir, idx,
                   reads, skipped>>

\* One iteration of `for dirent in dir`, with a read error reported like a
\* directory error instead of being skipped.
ScanEntry_fatal ==
    /\ pc = "scanning"
    /\ idx < Len(dir.entries)
    /\ idx' = idx + 1
    /\ LET e == dir.entries[idx + 1]
           r == read_backlight_settings(e)
       IN  IF ~e.ok
           THEN /\ found' = [NoResult EXCEPT !.status = "SysAccess"]
                /\ pc' = "returned"
                /\ UNCHANGED <<reads, skipped>>
           ELSE /\ reads' = reads \o Tag(idx + 1, r.files)
                /\ IF r.ok
                   THEN /\ found' = [status |-> "Ok", name |-> idx + 1,
                                     utf8 |-> e.utf8, max |-> r.max,
                                     current |-> r.current]
                        /\ pc' = "returned"
                        /\ UNCHANGED skipped
                   ELSE /\ found' = [NoResult EXCEPT !.status = "SysAccess"]
                        /\ pc' = "returned"
                        /\ UNCHANGED skipped
    /\ UNCHANGED <<argVars, devVars, runVars, broker, exit, err, dir>>

\* One iteration of `for dirent in dir`: a dirent error returns SysAccess;
\* readings that parse return the entry; anything else is reported on stderr
\* and the loop goes on.
ScanEntry ==
    /\ pc = "scanning"
    /\ idx < Len(dir.entries)
    /\ idx' = idx + 1
    /\ LET e == dir.entries[idx + 1]
           r == read_backlight_settings(e)
       IN  IF ~e.ok
           THEN /\ found' = [NoResult EXCEPT !.status = "SysAccess"]
                /\ pc' = "returned"
                /\ UNCHANGED <<reads, skipped>>
           ELSE /\ reads' = reads \o Tag(idx + 1, r.files)
                /\ IF r.ok
                   THEN /\ found' = [status |-> "Ok", name |-> idx + 1,
                                     utf8 |-> e.utf8, max |-> r.max,
                                     current |-> r.current]
                        /\ pc' = "returned"
                        /\ UNCHANGED skipped
                   ELSE /\ skipped' = Append(skipped, idx + 1)
                        /\ UNCHANGED <<found, pc>>
    /\ UNCHANGED <<argVars, devVars, runVars, broker, exit, err, dir>>

\* The iterator is exhausted: Err(Error::EternalDarkness).
ScanExhausted ==
    /\ pc = "scanning"
    /\ idx = Len(dir.entries)
    /\ found' = [NoResult EXCEPT !.status = "EternalDarkness"]
    /\ pc' = "returned"
    /\ UNCHANGED <<argVars, devVars, runVars, broker, exit, err, dir, idx,
                   reads, skipped>>

\* The caller takes the (Backlight, current) that was found.
TakeFound ==
    /\ pc = "returned"
    /\ found.status = "Ok"
    /\ bl_max' = found.max
    /\ current' = found.current
    /\ name_utf8' = found.utf8
    /\ pc' = "holding"
    /\ UNCHANGED <<argVars, runVars, broker, exit, err, scanVars>>

\* The caller gives up on an Err.
FoundNothing ==
    /\ pc = "returned"
    /\ found.status # "Ok"
    /\ End("error", "discovery")
    /\ UNCHANGED <<argVars, devVars, runVars, broker, scanVars>>

\* The caller applies a brightness in range to the backlight it found.
ApplyToFound ==
    /\ pc = "holding"
    /\ \E v \in 0 .. bl_max : connect_and_set_brightness(v)
    /\ UNCHANGED <<argVars, devVars, runVars, scanVars>>

DiscoverNext ==
    \/ ReadDir
    \/ ScanEntry
    \/ ScanExhausted
    \/ TakeFound
    \/ FoundNothing
    \/ ApplyToFound

SpecDiscover == DiscoverInit /\ [][DiscoverNext]_vars

\* ---------------------------------------------- discovery's contract

\* Entry i of the directory has readings that both parse.
Qualifies(i) ==
    /\ dir.entries[i].ok
    /\ dir.entries[i].brightness.st = "num"
    /\ dir.entries[i].max_brightness.st = "num"

\* Entry i was yielded by the iterator and a reading fails to read or parse.
Failing(i) == dir.entries[i].ok /\ ~Qualifies(i)

\* The iterator fails at position i.
IterError(i) == ~dir.entries[i].ok

\* The positions at which the scan ends before the listing is exhausted.
Stops == {i \in 1 .. Len(dir.entries) : Qualifies(i) \/ IterError(i)}

\* The least element of a non-empty set of numbers.
Least(S) == CHOOSE i \in S : \A j \in S : i <= j

\* find_first_backlight has returned.
Returned == found.status # "running"

\* C5: find_first_backlight visits the entries in directory order and returns
\* the first entry whose brightness and max_brightness both parse, with that
\* entry's name, max and current; no entry after it is read; it fails with
\* EternalDarkness exactly when the listing is exhausted without a qualifying
\* entry, and with the distinct SysAccess when the directory (or its
\* iterator) cannot be read.
C5_FirstBacklight ==
    /\ \A k \in 1 .. Len(reads) :
          /\ reads[k][1] <= idx
          /\ k > 1 => reads[k - 1][1] <= reads[k][1]
    /\ \A i \in 1 .. idx : dir.entries[i].ok =>
          /\ \E k \in 1 .. Len(reads) : reads[k] = <<i, "brightness">>
          /\ dir.entries[i].brightness.st = "num"
                => \E k \in 1 .. Len(reads) : reads[k] = <<i, "max_brightness">>
    /\ Returned =>
          /\ (found.status = "Ok")
                <=> (dir.access /\ Stops # {} /\ Qualifies(Least(Stops)))
          /\ (found.status = "EternalDarkness")
                <=> (dir.access /\ Stops = {})
          /\ (found.status = "SysAccess")
                <=> (~dir.access \/ (Stops # {} /\ IterError(Least(Stops))))
          /\ found.status = "EternalDarkness" => idx = Len(dir.entries)
          /\ found.status = "Ok" =>
                /\ found.name = Least(Stops)
                /\ idx = found.name
                /\ found.max = dir.entries[found.name].max_brightness.val
                /\ found.current = dir.entries[found.name].brightness.val
                /\ found.utf8 = dir.entries[found.name].utf8
                /\ \A k \in 1 .. Len(reads) : reads[k][1] <= found.name

\* C5 witness: the first entry was returned although a second entry
\* qualifies too; the second entry was never read, and the readings of the
\* first differ.
C5_Witness ==
    /\ found.status = "Ok"
    /\ found.name = 1
    /\ found.current # found.max
    /\ Len(dir.entries) = 2
    /\ Qualifies(2)
    /\ reads = <<<<1, "brightness">>, <<1, "max_brightness">>>>

\* The entries skipped so far are exactly the failing entries among those
\* visited, each reported once, in order.
SkippedAreFailing ==
    /\ \A k \in 1 .. Len(skipped) :
          /\ skipped[k] \in 1 .. idx
          /\ Failing(skipped[k])
          /\ k > 1 => skipped[k - 1] < skipped[k]
    /\ \A i \in 1 .. idx : Failing(i) => \E k \in 1 .. Len(skipped) : skipped[k] = i

\* The directory can be listed and its iterator never fails.
ListingSound == dir.access /\ \A i \in 1 .. Len(dir.entries) : ~IterError(i)

\* Entry i qualifies and has a name the broker can take.
Usable(i) == Qualifies(i) /\ dir.entries[i].utf8

\* C6 as stated: an entry that fails to read or parse, or whose name is not
\* representable, is skipped with a warning, and the first later entry that is
\* valid (readings parse, name representable) is returned.
C6_NoEntryFatalAsStated ==
    (Returned /\ ListingSound) =>
        LET V == {i \in 1 .. Len(dir.entries) : Usable(i)}
        IN  IF V = {}
            THEN found.status = "EternalDarkness"
            ELSE /\ found.status = "Ok"
                 /\ found.name = Least(V)
                 /\ skipped = [k \in 1 .. Least(V) - 1 |-> k]

\* C6 amended: an entry that fails to read or to parse is skipped with a
\* warning and never ends the scan, so a later entry whose readings parse is
\* still returned.  A name that is not valid UTF-8 is not looked at by
\* find_first_backlight: such an entry is returned like any other, and the
\* set_brightness that follows panics without sending anything.
C6_NoEntryFatal ==
    /\ SkippedAreFailing
    /\ (Returned /\ found.status = "SysAccess")
          => (~dir.access \/ (idx > 0 /\ IterError(idx)))
    /\ (Returned /\ ListingSound) =>
          LET Q == {i \in 1 .. Len(dir.entries) : Qualifies(i)}
          IN  IF Q = {}
              THEN found.status = "EternalDarkness"
              ELSE /\ found.status = "Ok"
                   /\ found.name = Least(Q)
                   /\ skipped = [k \in 1 .. Least(Q) - 1 |-> k]
    /\ (pc = "done" /\ found.status = "Ok" /\ ~found.utf8)
          => (broker = <<>> /\ exit # "ok" /\ err \in {"name", "Dbus"})

\* C6 witness: the first entry could not be read and was skipped, the second
\* entry was returned, and a brightness was applied to it.
C6_Witness ==
    /\ found.status = "Ok"
    /\ found.name = 2
    /\ dir.entries[1].brightness.st = "noent"
    /\ skipped = <<1>>
    /\ Len(broker) = 1
    /\ exit = "ok"

\* ------------------------------------ src/lib.rs: a library client

\* A client that holds a Backlight and a session.
LibInit ==
    /\ bl_max \in DevVals
    /\ name_utf8 \in BOOLEAN
    /\ current = 0
    /\ pc = "holding"
    /\ args_raw = TRUE
    /\ args_picky = FALSE
    /\ args_min = 0
    /\ args_cmd = "set"
    /\ args_arg = 0
    /\ build = "release"
    /\ RunIdle
    /\ ScanIdle

\* The client calls set_brightness(&session, &backlight, v).
ClientSetBrightness ==
    /\ pc = "holding"
    /\ Len(broker) < MaxCalls
    /\ \E v \in DevVals : set_brightness(v)
    /\ UNCHANGED <<argVars, devVars, runVars, scanVars>>

\* The client calls connect_and_set_brightness(&backlight, v).
ClientConnectAndSetBrightness ==
    /\ pc = "holding"
    /\ Len(broker) < MaxCalls
    /\ \E v \in DevVals : connect_and_set_brightness(v)
    /\ UNCHANGED <<argVars, devVars, runVars, scanVars>>

\* A call returned Ok or Err (it did not panic): the client goes on.
ClientContinues ==
    /\ pc = "done"
    /\ exit \in {"ok", "error"}
    /\ pc' = "holding"
    /\ exit' = "running"
    /\ err' = None
    /\ UNCHANGED <<argVars, devVars, runVars, broker, scanVars>>

LibNext ==
    \/ ClientSetBrightness
    \/ ClientConnectAndSetBrightness
    \/ ClientContinues

SpecLib == LibInit /\ [][LibNext]_vars

\* C9: no sequence of calls of set_brightness and connect_and_set_brightness
\* delivers a value above backlight.max to the session broker: both panic,
\* and send nothing, when new_value > backlight.max.
C9_BrokerNeverAboveMax == \A i \in 1 .. Len(broker) : broker[i] <= bl_max

\* --------------------------------------------- the unit converter alone

\* Any device ceiling above zero and any u32 input.
ConvInit ==
    /\ bl_max \in 1 .. MaxConvMax
    /\ current \in U32
    /\ name_utf8 = TRUE
    /\ pc = "conv"
    /\ args_raw = FALSE
    /\ args_picky = FALSE
    /\ args_min = 0
    /\ args_cmd = "set"
    /\ args_arg = 0
    /\ build = "release"
    /\ RunIdle
    /\ ScanIdle

\* to_percent(&bl, 1., current)
ConvToPercent ==
    /\ pc = "conv"
    /\ current_user' \in to_percent(bl_max, current)
    /\ pc' = "to"
    /\ UNCHANGED <<argVars, devVars, max_user, target_user, target, stdout,
                   broker, exit, err, scanVars>>

\* from_percent(&bl, 1., current): the input taken as a percentage.
ConvFromPercent ==
    /\ pc = "conv"
    /\ target_user' = current
    /\ target' \in from_percent(bl_max, current)
    /\ pc' = "from"
    /\ UNCHANGED <<argVars, devVars, current_user, max_user, stdout, broker,
                   exit, err, scanVars>>

\* from_percent(&bl, 1., to_percent(&bl, 1., current))
ConvBack ==
    /\ pc = "to"
    /\ target_user' = current_user
    /\ target' \in from_percent(bl_max, current_user)
    /\ pc' = "back"
    /\ UNCHANGED <<argVars, devVars, current_user, max_user, stdout, broker,
                   exit, err, scanVars>>

ConvNext ==
    \/ ConvToPercent
    \/ ConvFromPercent
    \/ ConvBack

SpecConv == ConvInit /\ [][ConvNext]_vars

\* |a - b|
Dist(a, b) == IF a < b THEN b - a ELSE a - b

\* C7 as stated: for every max > 0 and raw in 0 .. max the round trip
\* from_percent(to_percent(raw)) is within 1 of raw, and equals raw when max
\* divides 100.
C7_RoundTripAnyMax ==
    (pc = "back" /\ current <= bl_max)
        => /\ Dist(target, current) <= 1
           /\ 100 % bl_max = 0 => target = current

\* C7 amended: the same for every max in 1 .. 300; from max = 301 on a
\* percentage step is wider than two raw units and the round trip can be off
\* by 2 or more.
C7_RoundTrip ==
    (pc = "back" /\ current <= bl_max /\ bl_max <= 300)
        => /\ Dist(target, current) <= 1
           /\ 100 % bl_max = 0 => target = current

\* C7 witness: a round trip on a ceiling that does not divide 100 came back
\* one off.
C7_Witness ==
    /\ pc = "back"
    /\ current <= bl_max
    /\ bl_max <= 300
    /\ Dist(target, current) = 1

\* The inputs b > a that a is compared with.
Peers(a) == {b \in (a + 1 .. a + MaxGap) \cup {U32Max} : a < b /\ b <= U32Max}

\* C8: for a fixed max > 0, to_percent and from_percent are monotonically
\* non-decreasing over the whole u32 range: a < b implies
\* to_percent(a) <= to_percent(b) and from_percent(a) <= from_percent(b),
\* also for raw values above max and percentages above 100 (for a = b the
\* two sides are the same evaluation).
C8_Monotone ==
    /\ pc = "to" =>
          \A b \in Peers(current) : \A rb \in to_percent(bl_max, b) :
              current_user <= rb
    /\ pc = "from" =>
          \A b \in Peers(current) : \A rb \in from_percent(bl_max, b) :
              target <= rb

\* C8 witness: a percentage above 100 was converted, on a ceiling above 100,
\* to a raw value above max that still fits the word.
C8_Witness ==
    /\ pc = "from"
    /\ current > 100
    /\ bl_max > 100
    /\ target > bl_max
    /\ target < U32Max

\* ------------------------------------------- src/main.rs: the binary

\* Option<u32>
NoneOpt == [some |-> FALSE, v |-> 0]

Some(x) == [some |-> TRUE, v |-> x]

\* u32::checked_add
checked_add(a, b) == IF a + b > U32Max THEN NoneOpt ELSE Some(a + b)

\* u32::checked_sub
checked_sub(a, b) == IF a < b THEN NoneOpt ELSE Some(a - b)

\* `a * b` on u32 overflows: a panic with overflow checks on (debug builds),
\* a wrapped product without them (release builds).
mul_overflows(a, b) == a * b > U32Max

mul_panics(a, b) == build = "debug" /\ mul_overflows(a, b)

\* The product the build computes when it does not panic.
mul(a, b) == (a * b) % (U32Max + 1)

\* After Brightr::parse(), for either build profile.
BinInit ==
    /\ args_raw \in BOOLEAN
    /\ args_picky \in BOOLEAN
    /\ args_min = 0
    /\ args_cmd \in Cmds
    /\ args_arg \in (IF args_cmd = "get" THEN {0} ELSE ArgVals)
    /\ build \in {"debug", "release"}
    /\ name_utf8 = TRUE
    /\ bl_max = None
    /\ current = None
    /\ pc = "parsed"
    /\ current_user = None
    /\ max_user = None
    /\ target_user = None
    /\ target = NoneOpt
    /\ stdout = None
    /\ broker = <<>>
    /\ exit = "running"
    /\ err = None
    /\ ScanIdle

\* use_specific_backlight / find_backlight succeed with any readings.
BinReadDevice ==
    /\ pc = "parsed"
    /\ \E c \in DevVals, m \in DevVals, u \in BOOLEAN :
          /\ current' = c
          /\ bl_max' = m
          /\ name_utf8' = u
    /\ pc' = "read"
    /\ UNCHANGED <<argVars, runVars, broker, exit, err, scanVars>>

\* use_specific_backlight / find_backlight fail.
BinReadDeviceFails ==
    /\ pc = "parsed"
    /\ End("error", "discovery")
    /\ UNCHANGED <<argVars, devVars, runVars, broker, scanVars>>

\* let Some(name) = name.to_str() else { bail!(..) }
BinCheckName ==
    /\ pc = "read"
    /\ IF name_utf8
       THEN /\ pc' = "named"
            /\ UNCHANGED <<exit, err>>
       ELSE End("error", "name")
    /\ UNCHANGED <<argVars, devVars, runVars, broker, scanVars>>

\* SubCmd::Get: raw prints current/max; otherwise current * 100 / max, which
\* panics on overflow (debug) and on max = 0.
BinGet ==
    /\ pc = "named"
    /\ args_cmd = "get"
    /\ IF args_raw
       THEN /\ stdout' = <<current, bl_max>>
            /\ End("ok", None)
       ELSE IF mul_panics(current, 100)
       THEN /\ End("panic", "overflow")
            /\ UNCHANGED stdout
       ELSE IF bl_max = 0
       THEN /\ End("panic", "divzero")
            /\ UNCHANGED stdout
       ELSE /\ stdout' = <<mul(current, 100) \div bl_max, 100>>
            /\ End("ok", None)
    /\ UNCHANGED <<argVars, devVars, current_user, max_user, target_user,
                   target, broker, scanVars>>

\* SubCmd::Set { value }: Some(value) or Some(value * max / 100).
BinSet ==
    /\ pc = "named"
    /\ args_cmd = "set"
    /\ IF args_raw
       THEN /\ target' = Some(args_arg)
            /\ pc' = "computed"
            /\ UNCHANGED <<exit, err>>
       ELSE IF mul_panics(args_arg, bl_max)
       THEN /\ End("panic", "overflow")
            /\ UNCHANGED target
       ELSE /\ target' = Some(mul(args_arg, bl_max) \div 100)
            /\ pc' = "computed"
            /\ UNCHANGED <<exit, err>>
    /\ UNCHANGED <<argVars, devVars, current_user, max_user, target_user,
                   stdout, broker, scanVars>>

\* SubCmd::Up { by }: current.checked_add(by) or
\* current.checked_add(by * max / 100).
BinUp ==
    /\ pc = "named"
    /\ args_cmd = "up"
    /\ IF args_raw
       THEN /\ target' = checked_add(current, args_arg)
            /\ pc' = "computed"
            /\ UNCHANGED <<exit, err>>
       ELSE IF mul_panics(args_arg, bl_max)
       THEN /\ End("panic", "overflow")
            /\ UNCHANGED target
       ELSE /\ target' = checked_add(current, mul(args_arg, bl_max) \div 100)
            /\ pc' = "computed"
            /\ UNCHANGED <<exit, err>>
    /\ UNCHANGED <<argVars, devVars, current_user, max_user, target_user,
                   stdout, broker, scanVars>>

\* SubCmd::Down { by }: current.checked_sub(by) or
\* current.checked_sub(by * max / 100).
BinDown ==
    /\ pc = "named"
    /\ args_cmd = "down"
    /\ IF args_raw
       THEN /\ target' = checked_sub(current, args_arg)
            /\ pc' = "computed"
            /\ UNCHANGED <<exit, err>>
       ELSE IF mul_panics(args_arg, bl_max)
       THEN /\ End("panic", "overflow")
            /\ UNCHANGED target
       ELSE /\ target' = checked_sub(current, mul(args_arg, bl_max) \div 100)
            /\ pc' = "computed"
            /\ UNCHANGED <<exit, err>>
    /\ UNCHANGED <<argVars, devVars, current_user, max_user, target_user,
                   stdout, broker, scanVars>>

\* The check against the device max, then the message to the session (the
\* connection or the call can fail), or the --picky error, or nothing.
BinFinish ==
    /\ pc = "computed"
    /\ LET checked == IF target.some /\ target.v > bl_max THEN NoneOpt
                      ELSE target
       IN  /\ target' = checked
           /\ IF checked.some
              THEN \/ /\ End("error", "Dbus")
                      /\ UNCHANGED broker
                   \/ /\ broker' = Append(broker,
                                          IF bl_max < checked.v THEN bl_max
                                          ELSE checked.v)
                      /\ \/ End("ok", None)
                         \/ End("error", "Dbus")
              ELSE /\ UNCHANGED broker
                   /\ IF args_picky
                      THEN End("error", "OutOfRange")
                      ELSE End("ok", None)
    /\ UNCHANGED <<argVars, devVars, current_user, max_user, target_user,
                   stdout, scanVars>>

BinNext ==
    \/ BinReadDevice
    \/ BinReadDeviceFails
    \/ BinCheckName
    \/ BinGet
    \/ BinSet
    \/ BinUp
    \/ BinDown
    \/ BinFinish

SpecBin == BinInit /\ [][BinNext]_vars

\* The requested brightness in raw units, in unbounded arithmetic.
Requested ==
    LET amount == IF args_raw THEN args_arg ELSE (args_arg * bl_max) \div 100
    IN  CASE args_cmd = "set" -> amount
          [] args_cmd = "up" -> current + amount
          [] args_cmd = "down" -> current - amount

\* C10: with --picky, a Set, Up or Down whose requested brightness (taken in
\* unbounded arithmetic) lies outside 0 .. max ends with a non-zero status and
\* sends nothing to the session, in raw and in percentage mode, with the
\* products by * max and value * max computed modulo the word size.
C10_PickyRejectsOutOfRange ==
    (DeviceRead /\ args_picky /\ args_cmd # "get"
                /\ (Requested < 0 \/ Requested > bl_max))
        => /\ broker = <<>>
           /\ pc = "done" => exit # "ok"

\* ------------------------------- what the resolver feeds to the clamp

\* A percentage-mode Up or Down from a reading within range reached the apply
\* call.
PercentStep ==
    /\ Handed
    /\ ~args_raw
    /\ args_cmd \in {"up", "down"}
    /\ current <= bl_max

\* The f64 evaluation of the run's conversions does not hinge on a rounding
\* tie.
NoTie ==
    /\ Cardinality(to_percent(bl_max, current)) = 1
    /\ Cardinality(from_percent(bl_max, target_user)) = 1
    /\ Cardinality(from_percent(bl_max, args_arg)) = 1

\* C11 as stated: in percentage mode (e = 1) the target is
\* clamp(current_raw +/- from_percent(amount), floor, max), the sum or
\* difference taken in raw units and saturating (judged on the runs whose
\* conversions do not hinge on an f64 rounding tie).
C11_ClampOfRawSum ==
    (PercentStep /\ NoTie) =>
        \E fp \in from_percent(bl_max, args_arg) :
            target = clamp(IF args_cmd = "up"
                           THEN (IF current + fp > U32Max THEN U32Max
                                 ELSE current + fp)
                           ELSE (IF fp > current THEN 0 ELSE current - fp),
                           args_min, bl_max)

\* C11 amended: in percentage mode (e = 1) the sum or difference is taken in
\* percentage units and saturates there (at the top of the word, at zero);
\* the value fed to the clamp is from_percent of it: the target is
\* clamp(from_percent(to_percent(current_raw) +/- amount), floor, max).
C11_ClampOfPercentSum ==
    PercentStep =>
        LET sum == IF args_cmd = "up"
                   THEN (IF current_user + args_arg > U32Max THEN U32Max
                         ELSE current_user + args_arg)
                   ELSE (IF args_arg > current_user THEN 0
                         ELSE current_user - args_arg)
        IN  /\ current_user \in to_percent(bl_max, current)
            /\ target_user = sum
            /\ \E t \in from_percent(bl_max, sum) :
                   target = clamp(t, args_min, bl_max)

\* C11 witness: a percentage-mode `up` moved the brightness to a value
\* strictly between the reading and the device max, and it was sent.
C11_Witness ==
    /\ PercentStep
    /\ args_cmd = "up"
    /\ args_arg > 0
    /\ current < target
    /\ target < bl_max
    /\ broker = <<target>>

\* ------------------------- examples/brightr.rs: the command repeated

\* Device ceilings of the repeated runs.
RepeatMaxes == (0 .. MaxRaw) \cup {101}

\* --picky with a fixed `up by` or `down by`, by >= 1, on a device whose
\* reading lies between the floor and the ceiling; the device has been read.
RepeatInit ==
    /\ args_raw \in BOOLEAN
    /\ args_picky = TRUE
    /\ args_cmd \in {"up", "down"}
    /\ args_arg \in ArgVals \ {0}
    /\ bl_max \in RepeatMaxes
    /\ args_min \in {f \in DevVals : f <= bl_max}
    /\ current \in {c \in DevVals : args_min <= c /\ c <= bl_max}
    /\ build = "release"
    /\ name_utf8 = TRUE
    /\ pc = "read"
    /\ RunIdle
    /\ ScanIdle

\* brightr::connect_and_set_brightness(&bl, target)? returns Ok: the session
\* accepted the value.
ApplyAccepted ==
    /\ pc = "clamped"
    /\ connect_and_set_brightness(target)
    /\ exit' = "ok"
    /\ UNCHANGED <<argVars, devVars, runVars, scanVars>>

\* The same command is run again: a new process, which reads from the device
\* the value the previous run applied.
RunAgain ==
    /\ pc = "done"
    /\ exit = "ok"
    /\ broker # <<>>
    /\ current' = broker[Len(broker)]
    /\ pc' = "read"
    /\ current_user' = None
    /\ max_user' = None
    /\ target_user' = None
    /\ target' = None
    /\ broker' = <<>>
    /\ exit' = "running"
    /\ UNCHANGED <<argVars, name_utf8, bl_max, stdout, err, scanVars>>

RepeatNext ==
    \/ MapUnits
    \/ Up
    \/ Down
    \/ MapBack
    \/ ApplyAccepted
    \/ RunAgain

SpecRepeat == RepeatInit /\ [][RepeatNext]_vars

\* From one run to the next, `up` does not lower the brightness and `down`
\* does not raise it.
NeverBackwards ==
    (pc = "done" /\ pc' = "read")
        => /\ args_cmd = "up" => current' >= current
           /\ args_cmd = "down" => current' <= current

\* The run that ends here is decided by its reading and arguments alone (no
\* f64 rounding tie), so a repetition that reads the same value ends the same.
RunIsFunction ==
    /\ args_raw \/ Cardinality(to_percent(bl_max, current)) = 1
    /\ args_raw \/ Cardinality(from_percent(bl_max, target_user)) = 1

\* C12 as stated: repeating a strict `up amount` (amount >= 1) from
\* floor <= current <= max never lowers the brightness and reaches
\* current = max after finitely many runs, and repeating `down amount` never
\* raises it and reaches current <= floor, in raw and in percentage mode.  A
\* run is a function of the reading and the arguments, so this requires every
\* run that is not rejected to move the brightness: one that leaves it where
\* it was, short of the boundary, is repeated without end.
C12_EveryRunMoves ==
    [][ /\ NeverBackwards
        /\ (pc = "done" /\ pc' = "read" /\ RunIsFunction)
              => current' # current ]_pc

\* Raw mode, or a percentage amount worth more than half a raw step.
StepExceedsRounding == args_raw \/ (2 * args_arg - 1) * bl_max > 100

\* From one run to the next the brightness moves at least one raw step
\* towards the boundary.
MovesOn ==
    (pc = "done" /\ pc' = "read")
        => /\ args_cmd = "up" => current' > current
           /\ args_cmd = "down" => current' < current

\* A run is rejected when, and only when, its reading is at the boundary.
RejectedAtBoundary ==
    pc = "mapped"
        => /\ err' = "AtUpperBound" <=> (args_cmd = "up" /\ current = bl_max)
           /\ err' = "AtLowerBound" <=> (args_cmd = "down" /\ current <= args_min)

\* C12 amended: in both modes `up` never lowers and `down` never raises the
\* brightness, and the run that reads current = max (up) or current <= floor
\* (down) is rejected.  In raw mode, and in percentage mode when
\* (2 * amount - 1) * max > 100, every run that is not rejected moves the
\* brightness at least one raw step, so the boundary is reached within
\* max - floor runs.  For smaller percentage amounts the repetition can stay
\* where it is for ever, inside the range and never rejected.
C12_Progress ==
    [][ /\ NeverBackwards
        /\ RejectedAtBoundary
        /\ StepExceedsRounding => MovesOn ]_pc

\* C12 witness: percentage-mode `up 1` runs on a device with max = 101 have
\* climbed, one run after another, to a reading no device started at, and the
\* last of them has applied max; the next will be rejected.
C12_Witness ==
    /\ ~args_raw
    /\ args_cmd = "up"
    /\ args_arg = 1
    /\ bl_max = 101
    /\ current = 100
    /\ current \notin DevVals
    /\ pc = "done"
    /\ broker = <<bl_max>>

====
